---- MODULE Spec2Model ----
(***************************************************************************)
(* A model of Yarrow's virtual slider (src/elements/virtual_slider.rs):    *)
(* the gesture/value state machine VirtualSliderInner and the pure         *)
(* quantization functions it is built on; of its progress bar              *)
(* (src/elements/progress_bar.rs); and of its dual tab and dual tab group  *)
(* (src/elements/dual_tab.rs).                                             *)
(*                                                                         *)
(* Numbers.  A normal value (f64 in the source) is modelled as an integer  *)
(* count of units, One units making 1.0.  One is Res ticks of StepLcm      *)
(* units each, so that every grid point k/n with n <= MaxSteps and every   *)
(* input (a whole number of ticks) is represented exactly.  The model is   *)
(* of real arithmetic: float rounding error and NaN are not represented.   *)
(* Pointer coordinates and deltas (f32 points) are integers; a scalar of   *)
(* the configuration is a number of units per point.                       *)
(***************************************************************************)
EXTENDS Integers, Sequences, FiniteSets, TLC

\* ------------------------------------------------------------------------
\* Bounds of the model

\* Largest step count a stepped parameter is constructed with.
MaxSteps == 2

\* Number of ticks between 0.0 and 1.0: the resolution of the normal values
\* supplied as inputs.
Res == 3

\* Magnitude of the largest pointer / wheel delta component, in points.
MaxDelta == 3

\* How far below 0 and above MaxPercent the percents supplied as inputs reach.
PercentMargin == 2

\* The largest percent of a progress bar (clamp_percent).
MaxPercent == 100

\* ------------------------------------------------------------------------
\* Representation of numbers

RECURSIVE Gcd(_, _)
Gcd(a, b) == IF b = 0 THEN a ELSE Gcd(b, a % b)

RECURSIVE LcmUpTo(_)
LcmUpTo(n) == IF n <= 1 THEN 1 ELSE (LcmUpTo(n - 1) * n) \div Gcd(LcmUpTo(n - 1), n)

\* Units per tick: a common multiple of every step count.
StepLcm == LcmUpTo(MaxSteps)

\* The normal value 1.0, in units.
One == Res * StepLcm

\* A clamp that lets every value through.
ClampNothing(v) == v

\* f64::clamp(0.0, 1.0)
Clamp01(v) == IF v < 0 THEN 0 ELSE IF v > One THEN One ELSE v

\* Option<T>: None, or Some(x)
None == << >>
Some(x) == << x >>

\* ------------------------------------------------------------------------
\* Quantization functions

\* A quotient a / b rounded toward zero.
RoundDivTruncating(a, b) == a \div b

\* f64::round of a non-negative quotient a / b: nearest integer, halves away
\* from zero.
RoundDiv(a, b) == (2 * a + b) \div (2 * b)

\* param_quantized_to_normal testing for the last step first.
param_quantized_to_normal_top_first(value, num_steps) ==
    IF value >= num_steps THEN One
    ELSE IF value = 0 \/ num_steps = 0 THEN 0
    ELSE (value * One) \div num_steps

\* param_quantized_to_normal taking step indices to count from one.
param_quantized_to_normal_counting_from_one(value, num_steps) ==
    IF value = 0 \/ num_steps = 0 THEN 0
    ELSE IF value > num_steps THEN One
    ELSE ((value - 1) * One) \div num_steps

param_quantized_to_normal(value, num_steps) ==
    IF value = 0 \/ num_steps = 0 THEN 0
    ELSE IF value >= num_steps THEN One
    ELSE (value * One) \div num_steps

\* param_normal_to_quantized without the test for normals of 1.0 and above.
param_normal_to_quantized_unbounded(normal, num_steps) ==
    IF normal <= 0 \/ num_steps = 0 THEN 0
    ELSE RoundDiv(normal * num_steps, One)

param_normal_to_quantized(normal, num_steps) ==
    IF normal <= 0 \/ num_steps = 0 THEN 0
    ELSE IF normal >= One THEN num_steps
    ELSE RoundDiv(normal * num_steps, One)

\* A snap that moves a normal half of the way to its grid point.
param_snap_normal_halfway(normal, num_steps) ==
    (normal + param_quantized_to_normal(param_normal_to_quantized(normal, num_steps),
                                        num_steps)) \div 2

param_snap_normal(normal, num_steps) ==
    param_quantized_to_normal(param_normal_to_quantized(normal, num_steps), num_steps)

\* ------------------------------------------------------------------------
\* Inputs

\* keyboard_types::Modifiers, as the set of keys held
SHIFT == {"SHIFT"}
CONTROL == {"CONTROL"}
ModifierSets == {{}, SHIFT, SHIFT \cup CONTROL}

\* Pointer positions: the origin and the points on either axis
PointerCoords == {0, 1}
Points == {p \in [x : PointerCoords, y : PointerCoords] : p.x = 0 \/ p.y = 0}

\* Pointer and wheel deltas: zero, and a small step forward or a large step
\* back along either axis
DeltaCoords == {-MaxDelta, 0, 1}
Vectors == {v \in [x : DeltaCoords, y : DeltaCoords] : v.x = 0 \/ v.y = 0}

\* Option<Point> pointer_delta of handle_drag
PointerDeltas == {None} \cup {Some(d) : d \in Vectors}

\* event::WheelDeltaType
WheelDeltas == [type : {"Points", "Lines", "Pages"}, v : Vectors]

\* Normal values supplied by the caller, out-of-range ones included
NormalInputs == {i * StepLcm : i \in -1 .. Res + 1}

\* Option<u32> num_quantized_steps of new: a continuous parameter, a stepped
\* one with no steps, a stepped one with MaxSteps steps
StepCounts == {None, Some(0), Some(MaxSteps)}

\* ------------------------------------------------------------------------
\* Configuration

\* A scalar s applied to x: s is a fraction num/den
Scaled(x, s) == (x * s.num) \div s.den

\* VirtualSliderConfig::default(), with the scalars in model units: a point
\* dragged is two ticks, a fine-adjusted point is one tick.
DefaultConfig ==
    [ drag_scalar                     |-> 2 * StepLcm,
      scroll_wheel_scalar             |-> 3 * StepLcm,
      scroll_wheel_points_per_line    |-> 2,
      fine_adjustment_scalar          |-> [num |-> 1, den |-> 2],
      use_scroll_wheel                |-> TRUE,
      fine_adjustment_modifier        |-> Some(SHIFT),
      open_text_entry_modifier        |-> Some(CONTROL),
      open_text_entry_on_middle_click |-> TRUE,
      disable_pointer_locking         |-> FALSE ]

\* The configuration and the orientation flags (drag_vertically,
\* scroll_vertically) an instance is constructed with: each variation of the
\* configuration, two scroll-wheel scalars and each orientation occur.
Profiles ==
    { << DefaultConfig, TRUE, TRUE >>,
      << [DefaultConfig EXCEPT !.disable_pointer_locking = TRUE], FALSE, TRUE >>,
      << [DefaultConfig EXCEPT !.fine_adjustment_modifier = None,
                               !.scroll_wheel_scalar = StepLcm], TRUE, FALSE >>,
      << [DefaultConfig EXCEPT !.use_scroll_wheel = FALSE], FALSE, FALSE >> }

ParamIds == {1}

\* ------------------------------------------------------------------------
\* State of a VirtualSliderInner

VARIABLES
    param_id,
    config,
    drag_vertically,
    scroll_vertically,
    normal_value,
    default_normal,
    continuous_gesture_normal,
    stepped_state,            \* Option<SteppedParamState>
    current_gesture,          \* Option<BeginGestureType>
    op,                       \* the operation called last
    ret,                      \* what it returned
    gesture_notified,         \* the notifications returned so far end an open
                              \* GestureStarted .. GestureFinished bracket
    was_gesturing,            \* self.current_gesture.is_some() on entry to the
                              \* operation called last
    drag_mode,                \* the mode in which the operation called last, a
                              \* handle_drag of a Dragging gesture, computed
                              \* its candidate; None after any other
    \* SharedState of a VirtualSlider handle, beside its VirtualSliderInner
    automation_info,          \* AutomationInfo
    \* SharedState of a ProgressBar
    percent,
    percent_ret,              \* what the last set_percent returned
    percent_notified,         \* the last set_percent called
                              \* el.notify_custom_state_change()
    \* A call of a quantization function
    q_op,                     \* the function called last
    q_normal,                 \* its arguments: a normal value,
    q_value,                  \* a step index,
    q_steps,                  \* a step count
    q_result,                 \* what it returned
    \* A DualTabElement and the SharedState it shares with its DualTab handle
    inner,                    \* SharedState.inner: DualToggleButtonInner
    action,                   \* Option<A>
    tooltip_message,          \* Option<String>
    tab_op,                   \* the operation called last
    event,                    \* the event it handled, if it was on_event
    status,                   \* the EventCaptureStatus on_event returned
    sent_action,              \* the action passed to cx.send_action
    requests,                 \* what else the operation asked of its context
    \* A DualTabGroup
    tabs,                     \* Vec<DualTab>, with the element of each
    selected_index,
    group_op,                 \* the operation called last
    group_sent,               \* the action a tab passed to cx.send_action
    panicked                  \* the operation called last panicked

fields == << param_id, config, drag_vertically, scroll_vertically >>

\* The state of a VirtualSliderInner and of its history
slider == << param_id, config, drag_vertically, scroll_vertically, normal_value,
             default_normal, continuous_gesture_normal, stepped_state,
             current_gesture, op, ret, gesture_notified, was_gesturing,
             drag_mode >>

\* The rest of a VirtualSlider's shared state
handle == << automation_info >>

\* The state of a ProgressBar
progress_bar == << percent, percent_ret, percent_notified >>

\* The state of a call of a quantization function
quantization == << q_op, q_normal, q_value, q_steps, q_result >>

\* The state of a DualTabElement and of its history
dual_tab == << inner, action, tooltip_message, tab_op, event, status,
               sent_action, requests >>

\* The state of a DualTabGroup and of its history
dual_tab_group == << tabs, selected_index, group_op, group_sent, panicked >>

\* What an operation of VirtualSliderInner has no access to
others == << handle, progress_bar, quantization, dual_tab, dual_tab_group >>

vars == << slider, handle, progress_bar, quantization, dual_tab, dual_tab_group >>

\* BeginGestureType
Dragging(pointer_start_pos, start_normal) ==
    [type |-> "Dragging", pointer_start_pos |-> pointer_start_pos,
     start_normal |-> start_normal]
ScrollWheel == [type |-> "ScrollWheel"]

IsDragging == current_gesture # None /\ current_gesture[1].type = "Dragging"

\* SteppedParamState
SteppedParamState(value, num_steps) == [value |-> value, num_steps |-> num_steps]

\* The accessors, on the given stepped state
SteppedValueOf(ss) == IF ss = None THEN None ELSE Some(ss[1].value)
stepped_value == SteppedValueOf(stepped_state)
num_quantized_steps == IF stepped_state = None THEN None ELSE Some(stepped_state[1].num_steps)

\* ParamUpdate
ParamUpdate(nv, sv, gs) ==
    [param_id |-> param_id, normal_value |-> nv, stepped_value |-> sv,
     gesture_state |-> gs]

\* The GestureStarted .. GestureFinished bracket after notification r
Notified(r, open) ==
    IF r = None THEN open
    ELSE IF r[1].gesture_state = "GestureStarted" THEN TRUE
    ELSE IF r[1].gesture_state = "GestureFinished" THEN FALSE
    ELSE open

\* ------------------------------------------------------------------------
\* VirtualSliderInner::new

\* A constructor that clamps the default of a stepped parameter without
\* snapping it.
new_clamping_default(id, normal, default, num_steps, cfg, drag_v, scroll_v) ==
    /\ param_id = id
    /\ config = cfg
    /\ drag_vertically = drag_v
    /\ scroll_vertically = scroll_v
    /\ IF num_steps # None
       THEN LET sv == param_normal_to_quantized(normal, num_steps[1]) IN
            /\ normal_value = param_quantized_to_normal(sv, num_steps[1])
            /\ default_normal = Clamp01(default)
            /\ stepped_state = Some(SteppedParamState(sv, num_steps[1]))
            /\ continuous_gesture_normal = param_quantized_to_normal(sv, num_steps[1])
       ELSE /\ normal_value = Clamp01(normal)
            /\ default_normal = Clamp01(default)
            /\ stepped_state = None
            /\ continuous_gesture_normal = Clamp01(normal)
    /\ current_gesture = None
    /\ op = "new"
    /\ ret = None
    /\ gesture_notified = FALSE
    /\ was_gesturing = FALSE
    /\ drag_mode = None

new(id, normal, default, num_steps, cfg, drag_v, scroll_v) ==
    /\ param_id = id
    /\ config = cfg
    /\ drag_vertically = drag_v
    /\ scroll_vertically = scroll_v
    /\ IF num_steps # None
       THEN LET sv == param_normal_to_quantized(normal, num_steps[1]) IN
            /\ normal_value = param_quantized_to_normal(sv, num_steps[1])
            /\ default_normal = param_snap_normal(default, num_steps[1])
            /\ stepped_state = Some(SteppedParamState(sv, num_steps[1]))
            /\ continuous_gesture_normal = param_quantized_to_normal(sv, num_steps[1])
       ELSE /\ normal_value = Clamp01(normal)
            /\ default_normal = Clamp01(default)
            /\ stepped_state = None
            /\ continuous_gesture_normal = Clamp01(normal)
    /\ current_gesture = None
    /\ op = "new"
    /\ ret = None
    /\ gesture_notified = FALSE
    /\ was_gesturing = FALSE
    /\ drag_mode = None

\* ------------------------------------------------------------------------
\* The shared state of a VirtualSlider handle, as create makes it

\* AutomationInfo
AutomationInfo(current_normal, range) ==
    [current_normal |-> current_normal, range |-> range]

\* Range<f64>
Range(start, end) == [start |-> start, end |-> end]

\* AutomationInfo::default()
AutomationInfoDefault == AutomationInfo(None, None)

\* VirtualSliderElement::create, the state beside the VirtualSliderInner
HandleCreated == automation_info = AutomationInfoDefault

\* ------------------------------------------------------------------------
\* The shared state of a ProgressBar, as its builder makes it

\* A clamp_percent without the lower limit.
clamp_percent_upper_only(p) == IF p > MaxPercent THEN MaxPercent ELSE p

clamp_percent(p) ==
    IF p > MaxPercent THEN MaxPercent
    ELSE IF p < 0 THEN 0
    ELSE p

\* Percents supplied by the caller, out-of-range ones included
PercentInputs == (0 - PercentMargin) .. (MaxPercent + PercentMargin)

\* ProgressBarBuilder::percent(p) and ProgressBarElement::create
ProgressBarCreated(p) ==
    /\ percent = clamp_percent(p)
    /\ percent_ret = FALSE
    /\ percent_notified = FALSE

\* ------------------------------------------------------------------------
\* The arguments of a call of a quantization function

\* Normal values: every unit from below 0.0 to above 1.0
QuantizationNormals == (0 - StepLcm) .. (One + StepLcm)

\* Step counts and step indices (u32), indices beyond the step count included
QuantizationSteps == 0 .. MaxSteps
QuantizationValues == 0 .. (MaxSteps + 1)

\* No quantization function has been called on the arguments
QuantizationArguments(normal, value, num_steps) ==
    /\ q_op = "none"
    /\ q_normal = normal
    /\ q_value = value
    /\ q_steps = num_steps
    /\ q_result = None

\* ------------------------------------------------------------------------
\* A DualTab: DualToggleButtonInner, whose source is not in dual_tab.rs, as
\* dual_tab.rs uses it: a ButtonState and a toggled flag behind state(),
\* toggled(), set_state and set_toggled

ButtonStates == {"Idle", "Hovered", "Down", "Disabled"}

DualToggleButtonInner_new(toggled) == [state |-> "Idle", toggled |-> toggled]

DualToggleButtonInner_set_state(i, state) == [i EXCEPT !.state = state]

DualToggleButtonInner_set_toggled(i, toggled) == [i EXCEPT !.toggled = toggled]

\* The fields of a DualTabElement
DualTabElement(i, a, message) ==
    [inner |-> i, action |-> a, tooltip_message |-> message]

\* DualTabBuilder::toggled, on_toggled_on and tooltip_message, then
\* DualTabElement::create
DualTabElement_create(toggled, a, message) ==
    DualTabElement(DualToggleButtonInner_new(toggled), a, message)

\* ElementEvent: the variants on_event matches and one of the others; within
\* is cx.is_point_within_visible_bounds(position) of a ButtonJustReleased
ElementEvent(type, just_entered, button, within) ==
    [type |-> type, just_entered |-> just_entered, button |-> button,
     within |-> within]

PointerButtons == {"Primary", "Secondary"}

ElementEvents ==
      { ElementEvent(type, FALSE, "Primary", FALSE) :
            type \in {"CustomStateChanged", "PointerLeft", "HoverTimeout", "Other"} }
    \cup { ElementEvent("Moved", just_entered, "Primary", FALSE) :
            just_entered \in BOOLEAN }
    \cup { ElementEvent("ButtonJustPressed", FALSE, button, FALSE) :
            button \in PointerButtons }
    \cup { ElementEvent("ButtonJustReleased", FALSE, button, within) :
            button \in PointerButtons, within \in BOOLEAN }

\* What on_event does: the inner state it leaves, the status it returns, the
\* action it sends and what else it asks of its context.  A request_repaint
\* that depends on what set_state or set_toggled returned is not among the
\* requests.
Handled(i, captured, sent, asked) ==
    [inner |-> i,
     status |-> IF captured THEN "Captured" ELSE "NotCaptured",
     sent_action |-> sent,
     requests |-> asked]

\* A ButtonJustPressed arm that toggles on every primary press.
on_button_just_pressed_toggling(el, ev) ==
    IF /\ ev.button = "Primary"
       /\ el.inner.state \in {"Idle", "Hovered"}
    THEN Handled(DualToggleButtonInner_set_toggled(
                     DualToggleButtonInner_set_state(el.inner, "Down"),
                     ~el.inner.toggled),
                 TRUE, el.action, {})
    ELSE Handled(el.inner, FALSE, None, {})

on_button_just_pressed(el, ev) ==
    IF /\ ev.button = "Primary"
       /\ el.inner.state \in {"Idle", "Hovered"}
       /\ ~el.inner.toggled
    THEN Handled(DualToggleButtonInner_set_toggled(
                     DualToggleButtonInner_set_state(el.inner, "Down"),
                     ~el.inner.toggled),
                 TRUE, el.action, {})
    ELSE Handled(el.inner, FALSE, None, {})

on_event(el, ev) ==
    CASE ev.type = "CustomStateChanged" ->
             Handled(el.inner, FALSE, None, {"request_repaint"})
      [] ev.type = "Moved" ->
             IF el.inner.state = "Disabled"
             THEN Handled(el.inner, FALSE, None, {})
             ELSE Handled(IF el.inner.state = "Idle"
                          THEN DualToggleButtonInner_set_state(el.inner, "Hovered")
                          ELSE el.inner,
                          TRUE, None,
                          {"cursor_icon"} \cup
                              IF ev.just_entered /\ el.tooltip_message # None
                              THEN {"start_hover_timeout"}
                              ELSE {})
      [] ev.type = "PointerLeft" ->
             IF el.inner.state \in {"Hovered", "Down"}
             THEN Handled(DualToggleButtonInner_set_state(el.inner, "Idle"),
                          TRUE, None, {})
             ELSE Handled(el.inner, FALSE, None, {})
      [] ev.type = "ButtonJustPressed" -> on_button_just_pressed(el, ev)
      [] ev.type = "ButtonJustReleased" ->
             IF /\ ev.button = "Primary"
                /\ el.inner.state \in {"Down", "Hovered"}
             THEN Handled(DualToggleButtonInner_set_state(
                              el.inner, IF ev.within THEN "Hovered" ELSE "Idle"),
                          TRUE, None, {})
             ELSE Handled(el.inner, FALSE, None, {})
      [] ev.type = "HoverTimeout" ->
             Handled(el.inner, FALSE, None,
                     IF el.tooltip_message # None THEN {"show_tooltip"} ELSE {})
      [] OTHER -> Handled(el.inner, FALSE, None, {})

\* The actions and tooltip messages of the tabs built
TabActions == {None, Some("toggled on")}
TooltipMessages == {None, Some("message")}

DualTabCreated(toggled, a, message) ==
    /\ inner = DualToggleButtonInner_new(toggled)
    /\ action = a
    /\ tooltip_message = message
    /\ tab_op = "create"
    /\ event = None
    /\ status = None
    /\ sent_action = None
    /\ requests = {}

\* The element of the DualTab handles an event
DualTabElement_on_event(ev) ==
    LET done == on_event(DualTabElement(inner, action, tooltip_message), ev)
    IN  /\ tab_op' = "on_event"
        /\ event' = Some(ev)
        /\ inner' = done.inner
        /\ status' = Some(done.status)
        /\ sent_action' = done.sent_action
        /\ requests' = done.requests
        /\ UNCHANGED << action, tooltip_message >>
        /\ UNCHANGED << slider, handle, progress_bar, quantization, dual_tab_group >>

\* DualTab::set_toggled
set_toggled(toggled) ==
    /\ tab_op' = "set_toggled"
    /\ IF inner.toggled # toggled
       THEN /\ inner' = DualToggleButtonInner_set_toggled(inner, toggled)
            /\ requests' = {"notify_custom_state_change"}
       ELSE /\ UNCHANGED inner
            /\ requests' = {}
    /\ event' = None
    /\ status' = None
    /\ sent_action' = None
    /\ UNCHANGED << action, tooltip_message >>
    /\ UNCHANGED << slider, handle, progress_bar, quantization, dual_tab_group >>

\* DualTab::set_disabled
set_disabled(disabled) ==
    /\ tab_op' = "set_disabled"
    /\ IF disabled /\ inner.state # "Disabled"
       THEN /\ inner' = DualToggleButtonInner_set_state(inner, "Disabled")
            /\ requests' = {"notify_custom_state_change"}
       ELSE IF ~disabled /\ inner.state = "Disabled"
       THEN /\ inner' = DualToggleButtonInner_set_state(inner, "Idle")
            /\ requests' = {"notify_custom_state_change"}
       ELSE /\ UNCHANGED inner
            /\ requests' = {}
    /\ event' = None
    /\ status' = None
    /\ sent_action' = None
    /\ UNCHANGED << action, tooltip_message >>
    /\ UNCHANGED << slider, handle, progress_bar, quantization, dual_tab_group >>

\* ------------------------------------------------------------------------
\* A DualTabGroup.  tabs[i + 1] is the source's tabs[i].

MaxTabs == 2

\* The indices (usize) given to DualTabGroup::new and to updated_selected,
\* one beyond every group included
TabIndices == 0 .. MaxTabs

\* DualTabGroup::new for num_options options without tooltip messages and
\* on_selected the identity
DualTabGroup_new(num_options, selected) ==
    /\ tabs = [i \in 1 .. num_options |->
                  DualTabElement_create(i - 1 = selected, Some(i - 1), None)]
    /\ selected_index = selected
    /\ group_op = "new"
    /\ group_sent = None
    /\ panicked = FALSE

\* tabs with DualTab::set_toggled(toggled) called on tabs[i]
WithToggled(ts, i, toggled) ==
    [ts EXCEPT ![i + 1].inner = DualToggleButtonInner_set_toggled(@, toggled)]

\* DualTabGroup::updated_selected; self.tabs[selected_index] panics when the
\* index is not below tabs.len()
updated_selected(selected_index_arg) ==
    LET new_index == IF selected_index_arg >= Len(tabs) THEN 0 ELSE selected_index_arg
    IN  /\ ~panicked
        /\ group_op' = "updated_selected"
        /\ group_sent' = None
        /\ IF selected_index = new_index
           THEN UNCHANGED << tabs, selected_index, panicked >>
           ELSE LET untoggled == IF selected_index < Len(tabs)
                                 THEN WithToggled(tabs, selected_index, FALSE)
                                 ELSE tabs
                IN  /\ selected_index' = new_index
                    /\ IF new_index < Len(tabs)
                       THEN /\ tabs' = WithToggled(untoggled, new_index, TRUE)
                            /\ panicked' = FALSE
                       ELSE /\ tabs' = untoggled
                            /\ panicked' = TRUE
        /\ UNCHANGED << slider, handle, progress_bar, quantization, dual_tab >>

\* The element of tabs[i] handles an event
DualTabGroup_on_event(i, ev) ==
    LET done == on_event(tabs[i + 1], ev)
    IN  /\ ~panicked
        /\ group_op' = "on_event"
        /\ tabs' = [tabs EXCEPT ![i + 1].inner = done.inner]
        /\ group_sent' = done.sent_action
        /\ UNCHANGED << selected_index, panicked >>
        /\ UNCHANGED << slider, handle, progress_bar, quantization, dual_tab >>

\* ------------------------------------------------------------------------
\* A VirtualSliderInner on its own

Init ==
    /\ \E id \in ParamIds, normal \in NormalInputs, default \in NormalInputs,
          num_steps \in StepCounts, profile \in Profiles :
           new(id, normal, default, num_steps, profile[1], profile[2], profile[3])
    /\ HandleCreated
    /\ ProgressBarCreated(0)
    /\ QuantizationArguments(0, 0, 0)
    /\ DualTabCreated(FALSE, None, None)
    /\ DualTabGroup_new(0, 0)

\* ------------------------------------------------------------------------
\* The operations

\* begin_drag_gesture capturing the continuous position as the start value.
begin_drag_gesture_from_continuous(pointer_start_pos) ==
    /\ op' = "begin_drag_gesture"
    /\ IF current_gesture # None
       THEN /\ ret' = None
            /\ UNCHANGED current_gesture
       ELSE /\ current_gesture' = Some(Dragging(pointer_start_pos,
                                                continuous_gesture_normal))
            /\ ret' = Some(ParamUpdate(normal_value, stepped_value, "GestureStarted"))
    /\ gesture_notified' = Notified(ret', gesture_notified)
    /\ was_gesturing' = (current_gesture # None)
    /\ drag_mode' = None
    /\ UNCHANGED others
    /\ UNCHANGED << fields, normal_value, default_normal,
                    continuous_gesture_normal, stepped_state >>

begin_drag_gesture(pointer_start_pos) ==
    /\ op' = "begin_drag_gesture"
    /\ IF current_gesture # None
       THEN /\ ret' = None
            /\ UNCHANGED current_gesture
       ELSE /\ current_gesture' = Some(Dragging(pointer_start_pos, normal_value))
            /\ ret' = Some(ParamUpdate(normal_value, stepped_value, "GestureStarted"))
    /\ gesture_notified' = Notified(ret', gesture_notified)
    /\ was_gesturing' = (current_gesture # None)
    /\ drag_mode' = None
    /\ UNCHANGED others
    /\ UNCHANGED << fields, normal_value, default_normal,
                    continuous_gesture_normal, stepped_state >>

\* begin_scroll_wheel_gesture without the check for a gesture in progress.
begin_scroll_wheel_gesture_unguarded ==
    /\ op' = "begin_scroll_wheel_gesture"
    /\ current_gesture' = Some(ScrollWheel)
    /\ ret' = Some(ParamUpdate(normal_value, stepped_value, "GestureStarted"))
    /\ gesture_notified' = Notified(ret', gesture_notified)
    /\ was_gesturing' = (current_gesture # None)
    /\ drag_mode' = None
    /\ UNCHANGED others
    /\ UNCHANGED << fields, normal_value, default_normal,
                    continuous_gesture_normal, stepped_state >>

begin_scroll_wheel_gesture ==
    /\ op' = "begin_scroll_wheel_gesture"
    /\ IF current_gesture # None
       THEN /\ ret' = None
            /\ UNCHANGED current_gesture
       ELSE /\ current_gesture' = Some(ScrollWheel)
            /\ ret' = Some(ParamUpdate(normal_value, stepped_value, "GestureStarted"))
    /\ gesture_notified' = Notified(ret', gesture_notified)
    /\ was_gesturing' = (current_gesture # None)
    /\ drag_mode' = None
    /\ UNCHANGED others
    /\ UNCHANGED << fields, normal_value, default_normal,
                    continuous_gesture_normal, stepped_state >>

\* set_new_gesture_normal storing the candidate as it is, clamping only what it
\* compares and commits.
set_new_gesture_normal_storing_overshoot(new_gesture_normal) ==
    LET clamped == Clamp01(new_gesture_normal) IN
    IF clamped = continuous_gesture_normal
    THEN /\ ret' = None
         /\ UNCHANGED << continuous_gesture_normal, stepped_state, normal_value >>
    ELSE /\ continuous_gesture_normal' = new_gesture_normal
         /\ IF stepped_state # None
            THEN LET new_val == param_normal_to_quantized(clamped, stepped_state[1].num_steps)
                     changed == stepped_state[1].value # new_val
                 IN /\ stepped_state' = Some([stepped_state[1] EXCEPT !.value = new_val])
                    /\ UNCHANGED normal_value
                    /\ ret' = IF changed
                              THEN Some(ParamUpdate(normal_value, Some(new_val), "Gesturing"))
                              ELSE None
            ELSE LET changed == normal_value # clamped
                 IN /\ normal_value' = clamped
                    /\ UNCHANGED stepped_state
                    /\ ret' = IF changed
                              THEN Some(ParamUpdate(clamped, None, "Gesturing"))
                              ELSE None

\* set_new_gesture_normal notifying whenever the continuous position of a
\* stepped parameter moved.
set_new_gesture_normal_notifies_on_motion(new_gesture_normal) ==
    LET clamped == Clamp01(new_gesture_normal) IN
    IF clamped = continuous_gesture_normal
    THEN /\ ret' = None
         /\ UNCHANGED << continuous_gesture_normal, stepped_state, normal_value >>
    ELSE /\ continuous_gesture_normal' = clamped
         /\ IF stepped_state # None
            THEN LET new_val == param_normal_to_quantized(clamped, stepped_state[1].num_steps)
                     changed == stepped_state[1].value # new_val
                 IN /\ stepped_state' = Some([stepped_state[1] EXCEPT !.value = new_val])
                    /\ UNCHANGED normal_value
                    /\ ret' = Some(ParamUpdate(normal_value, Some(new_val), "Gesturing"))
            ELSE LET changed == normal_value # clamped
                 IN /\ normal_value' = clamped
                    /\ UNCHANGED stepped_state
                    /\ ret' = IF changed
                              THEN Some(ParamUpdate(clamped, None, "Gesturing"))
                              ELSE None

\* set_new_gesture_normal taking the step below the continuous position.
set_new_gesture_normal_rounding_down(new_gesture_normal) ==
    LET clamped == Clamp01(new_gesture_normal) IN
    IF clamped = continuous_gesture_normal
    THEN /\ ret' = None
         /\ UNCHANGED << continuous_gesture_normal, stepped_state, normal_value >>
    ELSE /\ continuous_gesture_normal' = clamped
         /\ IF stepped_state # None
            THEN LET new_val == (clamped * stepped_state[1].num_steps) \div One
                     changed == stepped_state[1].value # new_val
                 IN /\ stepped_state' = Some([stepped_state[1] EXCEPT !.value = new_val])
                    /\ UNCHANGED normal_value
                    /\ ret' = IF changed
                              THEN Some(ParamUpdate(normal_value, Some(new_val), "Gesturing"))
                              ELSE None
            ELSE LET changed == normal_value # clamped
                 IN /\ normal_value' = clamped
                    /\ UNCHANGED stepped_state
                    /\ ret' = IF changed
                              THEN Some(ParamUpdate(clamped, None, "Gesturing"))
                              ELSE None

\* set_new_gesture_normal: sets continuous_gesture_normal, stepped_state,
\* normal_value and the value returned.
set_new_gesture_normal(new_gesture_normal) ==
    LET clamped == Clamp01(new_gesture_normal) IN
    IF clamped = continuous_gesture_normal
    THEN /\ ret' = None
         /\ UNCHANGED << continuous_gesture_normal, stepped_state, normal_value >>
    ELSE /\ continuous_gesture_normal' = clamped
         /\ IF stepped_state # None
            THEN LET new_val == param_normal_to_quantized(clamped, stepped_state[1].num_steps)
                     changed == stepped_state[1].value # new_val
                 IN /\ stepped_state' = Some([stepped_state[1] EXCEPT !.value = new_val])
                    /\ UNCHANGED normal_value
                    /\ ret' = IF changed
                              THEN Some(ParamUpdate(normal_value, Some(new_val), "Gesturing"))
                              ELSE None
            ELSE LET changed == normal_value # clamped
                 IN /\ normal_value' = clamped
                    /\ UNCHANGED stepped_state
                    /\ ret' = IF changed
                              THEN Some(ParamUpdate(clamped, None, "Gesturing"))
                              ELSE None

\* The component of a point or vector along the vertical (y) or horizontal (x) axis
Along(vertical, v) == IF vertical THEN v.y ELSE v.x

\* modifiers == m for the configured fine_adjustment_modifier Some(m)
ApplyFineAdjustmentScalar(modifiers) ==
    IF config.fine_adjustment_modifier # None
    THEN modifiers = config.fine_adjustment_modifier[1]
    ELSE FALSE

\* A candidate of handle_drag that re-bases the captured start state in every
\* mode.
DragCandidateAlwaysRebasing(g, pointer_pos, pointer_delta, modifiers) ==
    LET use_pointer_delta == ~config.disable_pointer_locking /\ pointer_delta # None
        apply_fine_adjustment_scalar == ApplyFineAdjustmentScalar(modifiers)
    IN  IF use_pointer_delta
        THEN LET delta_points == Along(drag_vertically, pointer_delta[1])
                 delta_normal == IF apply_fine_adjustment_scalar
                                 THEN Scaled(delta_points * config.drag_scalar,
                                             config.fine_adjustment_scalar)
                                 ELSE delta_points * config.drag_scalar
             IN [new_gesture_normal |-> continuous_gesture_normal + delta_normal,
                 reset_start_pos |-> TRUE, mode |-> "PointerDelta"]
        ELSE IF apply_fine_adjustment_scalar
        THEN LET delta_points == Along(drag_vertically, pointer_pos)
                                 - Along(drag_vertically, g.pointer_start_pos)
                 delta_normal == Scaled(delta_points * config.drag_scalar,
                                        config.fine_adjustment_scalar)
             IN [new_gesture_normal |-> continuous_gesture_normal + delta_normal,
                 reset_start_pos |-> TRUE, mode |-> "FineAbsolute"]
        ELSE LET offset == Along(drag_vertically, pointer_pos)
                           - Along(drag_vertically, g.pointer_start_pos)
             IN [new_gesture_normal |-> g.start_normal + offset * config.drag_scalar,
                 reset_start_pos |-> TRUE, mode |-> "Absolute"]

\* The candidate continuous position handle_drag computes for a Dragging
\* gesture g, and whether the captured start state is to be re-based.
DragCandidate(g, pointer_pos, pointer_delta, modifiers) ==
    LET use_pointer_delta == ~config.disable_pointer_locking /\ pointer_delta # None
        apply_fine_adjustment_scalar == ApplyFineAdjustmentScalar(modifiers)
    IN  IF use_pointer_delta
        THEN LET delta_points == Along(drag_vertically, pointer_delta[1])
                 delta_normal == IF apply_fine_adjustment_scalar
                                 THEN Scaled(delta_points * config.drag_scalar,
                                             config.fine_adjustment_scalar)
                                 ELSE delta_points * config.drag_scalar
             IN [new_gesture_normal |-> continuous_gesture_normal + delta_normal,
                 reset_start_pos |-> TRUE, mode |-> "PointerDelta"]
        ELSE IF apply_fine_adjustment_scalar
        THEN LET delta_points == Along(drag_vertically, pointer_pos)
                                 - Along(drag_vertically, g.pointer_start_pos)
                 delta_normal == Scaled(delta_points * config.drag_scalar,
                                        config.fine_adjustment_scalar)
             IN [new_gesture_normal |-> continuous_gesture_normal + delta_normal,
                 reset_start_pos |-> TRUE, mode |-> "FineAbsolute"]
        ELSE LET offset == Along(drag_vertically, pointer_pos)
                           - Along(drag_vertically, g.pointer_start_pos)
             IN [new_gesture_normal |-> g.start_normal + offset * config.drag_scalar,
                 reset_start_pos |-> FALSE, mode |-> "Absolute"]

\* A handle_drag without a Dragging gesture that drops the gesture in progress.
HandleDragNotDraggingCancels ==
    /\ ret' = None
    /\ current_gesture' = None
    /\ UNCHANGED << continuous_gesture_normal, stepped_state, normal_value >>

\* handle_drag when current_gesture is not Some(Dragging): the else branch
HandleDragNotDragging ==
    /\ ret' = None
    /\ UNCHANGED << current_gesture, continuous_gesture_normal,
                    stepped_state, normal_value >>

handle_drag(pointer_pos, pointer_delta, modifiers) ==
    /\ op' = "handle_drag"
    /\ IF IsDragging
       THEN LET c == DragCandidate(current_gesture[1], pointer_pos, pointer_delta, modifiers)
            IN /\ current_gesture' =
                      IF c.reset_start_pos
                      THEN Some(Dragging(pointer_pos, continuous_gesture_normal))
                      ELSE current_gesture
               /\ set_new_gesture_normal(c.new_gesture_normal)
       ELSE HandleDragNotDragging
    /\ gesture_notified' = Notified(ret', gesture_notified)
    /\ was_gesturing' = (current_gesture # None)
    /\ drag_mode' = IF IsDragging
                     THEN Some(DragCandidate(current_gesture[1], pointer_pos,
                                             pointer_delta, modifiers).mode)
                     ELSE None
    /\ UNCHANGED others
    /\ UNCHANGED << fields, default_normal >>

\* A wheel delta in points that takes pages for points.
WheelDeltaPointsCountingPages(delta_type) ==
    IF delta_type.type = "Lines"
    THEN [x |-> delta_type.v.x * config.scroll_wheel_points_per_line,
          y |-> delta_type.v.y * config.scroll_wheel_points_per_line]
    ELSE delta_type.v

\* The wheel delta in points
WheelDeltaPoints(delta_type) ==
    IF delta_type.type = "Points" THEN delta_type.v
    ELSE IF delta_type.type = "Lines"
    THEN [x |-> delta_type.v.x * config.scroll_wheel_points_per_line,
          y |-> delta_type.v.y * config.scroll_wheel_points_per_line]
    ELSE [x |-> 0, y |-> 0]

\* handle_scroll_wheel scaling the delta by config.scroll_wheel_scalar.
handle_scroll_wheel_with_scroll_scalar(delta_type, modifiers) ==
    /\ op' = "handle_scroll_wheel"
    /\ LET apply_fine_adjustment_scalar == ApplyFineAdjustmentScalar(modifiers)
           delta == WheelDeltaPoints(delta_type)
           delta_points == Along(drag_vertically, delta)
           delta_normal == IF apply_fine_adjustment_scalar
                           THEN Scaled(delta_points * config.scroll_wheel_scalar,
                                       config.fine_adjustment_scalar)
                           ELSE delta_points * config.scroll_wheel_scalar
       IN IF ~config.use_scroll_wheel \/ delta_points = 0
          THEN /\ ret' = None
               /\ UNCHANGED << continuous_gesture_normal, stepped_state, normal_value >>
          ELSE set_new_gesture_normal(continuous_gesture_normal + delta_normal)
    /\ gesture_notified' = Notified(ret', gesture_notified)
    /\ was_gesturing' = (current_gesture # None)
    /\ drag_mode' = None
    /\ UNCHANGED others
    /\ UNCHANGED << fields, default_normal, current_gesture >>

handle_scroll_wheel(delta_type, modifiers) ==
    /\ op' = "handle_scroll_wheel"
    /\ LET apply_fine_adjustment_scalar == ApplyFineAdjustmentScalar(modifiers)
           delta == WheelDeltaPoints(delta_type)
           delta_points == Along(drag_vertically, delta)
           delta_normal == IF apply_fine_adjustment_scalar
                           THEN Scaled(delta_points * config.drag_scalar,
                                       config.fine_adjustment_scalar)
                           ELSE delta_points * config.drag_scalar
       IN IF ~config.use_scroll_wheel \/ delta_points = 0
          THEN /\ ret' = None
               /\ UNCHANGED << continuous_gesture_normal, stepped_state, normal_value >>
          ELSE set_new_gesture_normal(continuous_gesture_normal + delta_normal)
    /\ gesture_notified' = Notified(ret', gesture_notified)
    /\ was_gesturing' = (current_gesture # None)
    /\ drag_mode' = None
    /\ UNCHANGED others
    /\ UNCHANGED << fields, default_normal, current_gesture >>

\* finish_gesture returning its notification whether or not a gesture was active.
finish_gesture_always_notifies ==
    /\ op' = "finish_gesture"
    /\ ret' = Some(ParamUpdate(normal_value, stepped_value, "GestureFinished"))
    /\ current_gesture' = None
    /\ gesture_notified' = Notified(ret', gesture_notified)
    /\ was_gesturing' = (current_gesture # None)
    /\ drag_mode' = None
    /\ UNCHANGED others
    /\ UNCHANGED << fields, normal_value, default_normal,
                    continuous_gesture_normal, stepped_state >>

finish_gesture ==
    /\ op' = "finish_gesture"
    /\ ret' = IF current_gesture # None
              THEN Some(ParamUpdate(normal_value, stepped_value, "GestureFinished"))
              ELSE None
    /\ current_gesture' = None
    /\ gesture_notified' = Notified(ret', gesture_notified)
    /\ was_gesturing' = (current_gesture # None)
    /\ drag_mode' = None
    /\ UNCHANGED others
    /\ UNCHANGED << fields, normal_value, default_normal,
                    continuous_gesture_normal, stepped_state >>

\* A reset_to_default that exchanges the default with the committed value.
reset_to_default_moves_default ==
    /\ op' = "reset_to_default"
    /\ IF current_gesture # None \/ normal_value # default_normal
       THEN /\ normal_value' = default_normal
            /\ default_normal' = normal_value
            /\ ret' = Some(ParamUpdate(default_normal, stepped_value, "GestureFinished"))
       ELSE /\ ret' = None
            /\ UNCHANGED << normal_value, default_normal >>
    /\ current_gesture' = None
    /\ gesture_notified' = Notified(ret', gesture_notified)
    /\ was_gesturing' = (current_gesture # None)
    /\ drag_mode' = None
    /\ UNCHANGED others
    /\ UNCHANGED << fields, continuous_gesture_normal, stepped_state >>

reset_to_default ==
    /\ op' = "reset_to_default"
    /\ IF current_gesture # None
       THEN /\ normal_value' = default_normal
            /\ ret' = Some(ParamUpdate(default_normal, stepped_value, "GestureFinished"))
       ELSE IF normal_value # default_normal
       THEN /\ normal_value' = default_normal
            /\ ret' = Some(ParamUpdate(default_normal, stepped_value, "GestureFinished"))
       ELSE /\ ret' = None
            /\ UNCHANGED normal_value
    /\ current_gesture' = None
    /\ gesture_notified' = Notified(ret', gesture_notified)
    /\ was_gesturing' = (current_gesture # None)
    /\ drag_mode' = None
    /\ UNCHANGED others
    /\ UNCHANGED << fields, default_normal, continuous_gesture_normal, stepped_state >>

\* set_normal_value notifying only when the normal value changed.
set_normal_value_notifies_on_change_only(new_normal_in) ==
    LET new_val == param_normal_to_quantized(new_normal_in, stepped_state[1].num_steps)
        new_normal == IF stepped_state # None
                      THEN param_quantized_to_normal(new_val, stepped_state[1].num_steps)
                      ELSE Clamp01(new_normal_in)
        state_changed == normal_value # new_normal
    IN  /\ op' = "set_normal_value"
        /\ stepped_state' = IF stepped_state # None
                            THEN Some([stepped_state[1] EXCEPT !.value = new_val])
                            ELSE stepped_state
        /\ normal_value' = new_normal
        /\ continuous_gesture_normal' = new_normal
        /\ current_gesture' = None
        /\ ret' = IF state_changed
                  THEN Some(ParamUpdate(new_normal, SteppedValueOf(stepped_state'),
                                        "GestureFinished"))
                  ELSE None
        /\ gesture_notified' = Notified(ret', gesture_notified)
        /\ was_gesturing' = (current_gesture # None)
        /\ drag_mode' = None
        /\ UNCHANGED others
        /\ UNCHANGED << fields, default_normal >>

\* set_normal_value leaving the continuous gesture position where it was.
set_normal_value_keeps_continuous(new_normal_in) ==
    LET new_val == param_normal_to_quantized(new_normal_in, stepped_state[1].num_steps)
        new_normal == IF stepped_state # None
                      THEN param_quantized_to_normal(new_val, stepped_state[1].num_steps)
                      ELSE Clamp01(new_normal_in)
        state_changed == current_gesture # None \/ normal_value # new_normal
    IN  /\ op' = "set_normal_value"
        /\ stepped_state' = IF stepped_state # None
                            THEN Some([stepped_state[1] EXCEPT !.value = new_val])
                            ELSE stepped_state
        /\ normal_value' = new_normal
        /\ current_gesture' = None
        /\ ret' = IF state_changed
                  THEN Some(ParamUpdate(new_normal, SteppedValueOf(stepped_state'),
                                        "GestureFinished"))
                  ELSE None
        /\ gesture_notified' = Notified(ret', gesture_notified)
        /\ was_gesturing' = (current_gesture # None)
        /\ drag_mode' = None
        /\ UNCHANGED others
        /\ UNCHANGED << fields, default_normal, continuous_gesture_normal >>

set_normal_value(new_normal_in) ==
    LET new_val == param_normal_to_quantized(new_normal_in, stepped_state[1].num_steps)
        new_normal == IF stepped_state # None
                      THEN param_quantized_to_normal(new_val, stepped_state[1].num_steps)
                      ELSE Clamp01(new_normal_in)
        state_changed == current_gesture # None \/ normal_value # new_normal
    IN  /\ op' = "set_normal_value"
        /\ stepped_state' = IF stepped_state # None
                            THEN Some([stepped_state[1] EXCEPT !.value = new_val])
                            ELSE stepped_state
        /\ normal_value' = new_normal
        /\ continuous_gesture_normal' = new_normal
        /\ current_gesture' = None
        /\ ret' = IF state_changed
                  THEN Some(ParamUpdate(new_normal, SteppedValueOf(stepped_state'),
                                        "GestureFinished"))
                  ELSE None
        /\ gesture_notified' = Notified(ret', gesture_notified)
        /\ was_gesturing' = (current_gesture # None)
        /\ drag_mode' = None
        /\ UNCHANGED others
        /\ UNCHANGED << fields, default_normal >>

\* A snap_normal that clamps a stepped parameter's normal without snapping it.
snap_normal_clamps_only(normal) == Clamp01(normal)

\* VirtualSliderInner::snap_normal
snap_normal(normal) ==
    IF stepped_state # None
    THEN param_snap_normal(normal, stepped_state[1].num_steps)
    ELSE Clamp01(normal)

set_default_normal(new_normal_in) ==
    LET new_normal == snap_normal(new_normal_in)
        changed == default_normal # new_normal
    IN  /\ op' = "set_default_normal"
        /\ default_normal' = new_normal
        /\ ret' = Some(changed)
        /\ was_gesturing' = (current_gesture # None)
        /\ drag_mode' = None
        /\ UNCHANGED others
        /\ UNCHANGED << fields, normal_value, continuous_gesture_normal,
                        stepped_state, current_gesture, gesture_notified >>

Next ==
    \/ \E p \in Points : begin_drag_gesture(p)
    \/ begin_scroll_wheel_gesture
    \/ \E p \in Points, d \in PointerDeltas, m \in ModifierSets : handle_drag(p, d, m)
    \/ \E dt \in WheelDeltas, m \in ModifierSets : handle_scroll_wheel(dt, m)
    \/ finish_gesture
    \/ reset_to_default
    \/ \E v \in NormalInputs : set_normal_value(v)
    \/ \E v \in NormalInputs : set_default_normal(v)

Spec == Init /\ [][Next]_vars

\* ------------------------------------------------------------------------
\* A VirtualSlider handle: the VirtualSliderInner and the automation overlay

\* AutomationInfo::clamp
AutomationInfoClamp(info) ==
    AutomationInfo(
        IF info.current_normal # None
        THEN Some(Clamp01(info.current_normal[1]))
        ELSE None,
        IF info.range # None
        THEN Some(Range(Clamp01(info.range[1].start), Clamp01(info.range[1].end)))
        ELSE None)

\* Overlays supplied by the caller: the empty one, and one with a value below
\* the range and a range from inside it to above it
AutomationInputs ==
    { AutomationInfoDefault,
      AutomationInfo(Some(0 - StepLcm), Some(Range(StepLcm, One + StepLcm))) }

\* VirtualSlider::set_automation_info storing the overlay as supplied.
set_automation_info_unclamped(info_in) ==
    /\ IF automation_info # info_in
       THEN automation_info' = info_in
       ELSE UNCHANGED automation_info
    /\ UNCHANGED << slider, progress_bar, quantization, dual_tab, dual_tab_group >>

\* VirtualSlider::set_automation_info
set_automation_info(info_in) ==
    LET info == AutomationInfoClamp(info_in)
    IN  /\ IF automation_info # info
           THEN automation_info' = info
           ELSE UNCHANGED automation_info
        /\ UNCHANGED << slider, progress_bar, quantization, dual_tab, dual_tab_group >>

\* VirtualSliderElement::create for a continuous parameter and for a stepped
\* one, with the builder's default orientation and configuration
InitHandle ==
    /\ \E id \in ParamIds, normal \in NormalInputs, num_steps \in {None, Some(MaxSteps)} :
           new(id, normal, 0, num_steps, DefaultConfig, TRUE, TRUE)
    /\ HandleCreated
    /\ ProgressBarCreated(0)
    /\ QuantizationArguments(0, 0, 0)
    /\ DualTabCreated(FALSE, None, None)
    /\ DualTabGroup_new(0, 0)

NextHandle ==
    \/ Next
    \/ \E info \in AutomationInputs : set_automation_info(info)

SpecHandle == InitHandle /\ [][NextHandle]_vars

\* ------------------------------------------------------------------------
\* A ProgressBar

set_percent(percent_in) ==
    LET p == clamp_percent(percent_in)
    IN  /\ IF percent = p
           THEN /\ percent_ret' = FALSE
                /\ percent_notified' = FALSE
                /\ UNCHANGED percent
           ELSE /\ percent' = p
                /\ percent_notified' = TRUE
                /\ percent_ret' = TRUE
        /\ UNCHANGED << slider, handle, quantization, dual_tab, dual_tab_group >>

InitProgressBar ==
    /\ \E p \in PercentInputs : ProgressBarCreated(p)
    /\ new(1, 0, 0, None, DefaultConfig, TRUE, TRUE)
    /\ HandleCreated
    /\ QuantizationArguments(0, 0, 0)
    /\ DualTabCreated(FALSE, None, None)
    /\ DualTabGroup_new(0, 0)

NextProgressBar == \E p \in PercentInputs : set_percent(p)

SpecProgressBar == InitProgressBar /\ [][NextProgressBar]_vars

\* ------------------------------------------------------------------------
\* Calls of the quantization functions

call_param_quantized_to_normal ==
    /\ q_op' = "param_quantized_to_normal"
    /\ q_result' = Some(param_quantized_to_normal(q_value, q_steps))
    /\ UNCHANGED << q_normal, q_value, q_steps, slider, handle, progress_bar,
                 dual_tab, dual_tab_group >>

call_param_normal_to_quantized ==
    /\ q_op' = "param_normal_to_quantized"
    /\ q_result' = Some(param_normal_to_quantized(q_normal, q_steps))
    /\ UNCHANGED << q_normal, q_value, q_steps, slider, handle, progress_bar,
                 dual_tab, dual_tab_group >>

call_param_snap_normal ==
    /\ q_op' = "param_snap_normal"
    /\ q_result' = Some(param_snap_normal(q_normal, q_steps))
    /\ UNCHANGED << q_normal, q_value, q_steps, slider, handle, progress_bar,
                 dual_tab, dual_tab_group >>

\* param_snap_normal called on what a param_snap_normal returned
SnapOps == {"param_snap_normal", "param_snap_normal again"}
call_param_snap_normal_again ==
    /\ q_op \in SnapOps
    /\ q_op' = "param_snap_normal again"
    /\ q_result' = Some(param_snap_normal(q_result[1], q_steps))
    /\ UNCHANGED << q_normal, q_value, q_steps, slider, handle, progress_bar,
                 dual_tab, dual_tab_group >>

\* param_normal_to_quantized called on what param_quantized_to_normal returned
call_param_normal_to_quantized_of_grid_point ==
    /\ q_op = "param_quantized_to_normal"
    /\ q_op' = "param_normal_to_quantized of param_quantized_to_normal"
    /\ q_result' = Some(param_normal_to_quantized(q_result[1], q_steps))
    /\ UNCHANGED << q_normal, q_value, q_steps, slider, handle, progress_bar,
                 dual_tab, dual_tab_group >>

InitQuantization ==
    /\ \E normal \in QuantizationNormals, value \in QuantizationValues,
          num_steps \in QuantizationSteps :
           QuantizationArguments(normal, value, num_steps)
    /\ new(1, 0, 0, None, DefaultConfig, TRUE, TRUE)
    /\ HandleCreated
    /\ ProgressBarCreated(0)
    /\ DualTabCreated(FALSE, None, None)
    /\ DualTabGroup_new(0, 0)

NextQuantization ==
    \/ call_param_quantized_to_normal
    \/ call_param_normal_to_quantized
    \/ call_param_snap_normal
    \/ call_param_snap_normal_again
    \/ call_param_normal_to_quantized_of_grid_point

SpecQuantization == InitQuantization /\ [][NextQuantization]_vars

\* ------------------------------------------------------------------------
\* A DualTab on its own

InitDualTab ==
    /\ \E toggled \in BOOLEAN, a \in TabActions, message \in TooltipMessages :
           DualTabCreated(toggled, a, message)
    /\ DualTabGroup_new(0, 0)
    /\ new(1, 0, 0, None, DefaultConfig, TRUE, TRUE)
    /\ HandleCreated
    /\ ProgressBarCreated(0)
    /\ QuantizationArguments(0, 0, 0)

NextDualTab ==
    \/ \E ev \in ElementEvents : DualTabElement_on_event(ev)
    \/ \E toggled \in BOOLEAN : set_toggled(toggled)
    \/ \E disabled \in BOOLEAN : set_disabled(disabled)

SpecDualTab == InitDualTab /\ [][NextDualTab]_vars

\* ------------------------------------------------------------------------
\* A DualTabGroup and the elements of its tabs

InitDualTabGroup ==
    /\ \E num_options \in 0 .. MaxTabs, selected \in TabIndices :
           DualTabGroup_new(num_options, selected)
    /\ DualTabCreated(FALSE, None, None)
    /\ new(1, 0, 0, None, DefaultConfig, TRUE, TRUE)
    /\ HandleCreated
    /\ ProgressBarCreated(0)
    /\ QuantizationArguments(0, 0, 0)

NextDualTabGroup ==
    \/ \E selected \in TabIndices : updated_selected(selected)
    \/ \E i \in 0 .. (Len(tabs) - 1), ev \in ElementEvents :
           DualTabGroup_on_event(i, ev)

SpecDualTabGroup == InitDualTabGroup /\ [][NextDualTabGroup]_vars

\* ------------------------------------------------------------------------
\* Properties

\* The last operation returned a notification of the given gesture state
Returned(gs) ==
    /\ op # "set_default_normal"
    /\ ret # None
    /\ ret[1].gesture_state = gs

BeginOps == {"begin_drag_gesture", "begin_scroll_wheel_gesture"}

\* C1: for a stepped parameter the exposed normal value is always the
\* quantization of the exposed step index:
\* normal_value() = param_quantized_to_normal(stepped_value(), num_quantized_steps()).
C1_NormalIsQuantizedStep ==
    stepped_state # None =>
        normal_value = param_quantized_to_normal(stepped_state[1].value,
                                                 stepped_state[1].num_steps)

\* C2: after construction and after every operation, whatever the inputs,
\* normal_value() lies in [0.0, 1.0].
C2_NormalInRange == 0 <= normal_value /\ normal_value <= One

\* A drag or scroll input has changed the value of a continuous parameter and
\* left it on an end of the range, where candidates beyond the range are
\* clamped to.
C2_Witness ==
    /\ op \in {"handle_drag", "handle_scroll_wheel"}
    /\ stepped_state = None
    /\ Returned("Gesturing")
    /\ normal_value \in {0, One}

\* C3: whenever a gesture starts (a begin operation called while idle), the
\* continuous gesture position is reset to the committed normal value.
C3_BeginResetsContinuous ==
    (op \in BeginOps /\ Returned("GestureStarted")) =>
        continuous_gesture_normal = normal_value

\* C4: handle_scroll_wheel called while no gesture is active returns no
\* notification and leaves the committed value, the stepped value, the
\* continuous position and the gesture state unchanged.
C4_ScrollWhileIdleIsNoOp ==
    [][(current_gesture = None /\ op' = "handle_scroll_wheel") =>
          /\ ret' = None
          /\ UNCHANGED << normal_value, stepped_state, continuous_gesture_normal,
                          current_gesture >>]_vars

\* C5: every Gesturing notification is emitted inside a GestureStarted ..
\* GestureFinished bracket: a GestureStarted notification came before it with
\* no GestureFinished notification in between.
C5_GesturingOnlyDuringGesture ==
    Returned("Gesturing") => gesture_notified

\* C6: a begin operation called while a gesture of either kind is active
\* returns no notification and leaves the gesture (its kind, captured start
\* position and captured start value) unchanged; a gesture never changes kind
\* without the instance first returning to idle.
C6_BeginWhileActiveIsNoOp ==
    [][/\ (current_gesture # None /\ op' \in BeginOps) =>
              (ret' = None /\ current_gesture' = current_gesture)
       /\ (current_gesture # None /\ current_gesture' # None) =>
              current_gesture'[1].type = current_gesture[1].type]_vars

\* begin_drag_gesture has been called during a scroll-wheel gesture, and
\* begin_scroll_wheel_gesture during a drag.
C6_Witness ==
    \/ /\ op = "begin_drag_gesture"
       /\ ret = None
       /\ current_gesture = Some(ScrollWheel)
    \/ /\ op = "begin_scroll_wheel_gesture"
       /\ ret = None
       /\ IsDragging

\* C7: begin_drag_gesture(p) called while idle makes Dragging{p, normal_value}
\* the active gesture, begin_scroll_wheel_gesture called while idle makes
\* ScrollWheel the active gesture; both leave the committed value unchanged and
\* return a GestureStarted notification carrying it.
C7_BeginWhileIdleStartsGesture ==
    [][current_gesture = None =>
          /\ \A p \in Points :
                begin_drag_gesture(p) =>
                    /\ current_gesture' = Some(Dragging(p, normal_value))
                    /\ normal_value' = normal_value
                    /\ stepped_state' = stepped_state
                    /\ ret' = Some(ParamUpdate(normal_value, stepped_value,
                                               "GestureStarted"))
          /\ begin_scroll_wheel_gesture =>
                /\ current_gesture' = Some(ScrollWheel)
                /\ normal_value' = normal_value
                /\ stepped_state' = stepped_state
                /\ ret' = Some(ParamUpdate(normal_value, stepped_value,
                                           "GestureStarted"))]_vars

\* A drag gesture has been started from an idle state in which the continuous
\* position differed from the committed value.
C7_Witness ==
    /\ op = "begin_drag_gesture"
    /\ Returned("GestureStarted")
    /\ IsDragging
    /\ current_gesture[1].start_normal = normal_value
    /\ continuous_gesture_normal # normal_value

\* C8: handle_drag called when no Dragging gesture is active (idle, or a
\* ScrollWheel gesture active) returns no notification and changes nothing.
C8_DragWithoutDraggingIsNoOp ==
    [][(~IsDragging /\ op' = "handle_drag") =>
          /\ ret' = None
          /\ UNCHANGED << normal_value, stepped_state, continuous_gesture_normal,
                          current_gesture >>]_vars

\* handle_drag has been called during a scroll-wheel gesture.
C8_Witness ==
    /\ op = "handle_drag"
    /\ current_gesture = Some(ScrollWheel)
    /\ ret = None

\* C9: finish_gesture returns a GestureFinished notification if and only if a
\* gesture was active; afterwards no gesture is active, and the committed value
\* and the stepped value are as before the call.
C9_FinishGesture ==
    [][op' = "finish_gesture" =>
          /\ (ret' # None) <=> (current_gesture # None)
          /\ ret' # None => ret'[1].gesture_state = "GestureFinished"
          /\ current_gesture' = None
          /\ normal_value' = normal_value
          /\ stepped_state' = stepped_state]_vars

\* finish_gesture has ended a gesture.
C9_Witness ==
    /\ op = "finish_gesture"
    /\ Returned("GestureFinished")
    /\ current_gesture = None

\* C10: after reset_to_default no gesture is active and the committed value is
\* the default: normal_value() = default_normal() and, for a stepped parameter,
\* stepped_value() is the step index of the default.
C10_ResetCommitsDefault ==
    op = "reset_to_default" =>
        /\ current_gesture = None
        /\ normal_value = default_normal
        /\ stepped_state # None =>
              stepped_state[1].value =
                  param_normal_to_quantized(default_normal, stepped_state[1].num_steps)

\* The committed value differs from the default: the step index for a stepped
\* parameter, the normal value otherwise
CommittedDiffersFromDefault ==
    IF stepped_state # None
    THEN stepped_state[1].value #
             param_normal_to_quantized(default_normal, stepped_state[1].num_steps)
    ELSE normal_value # default_normal

\* The step from the current state to the next changes the committed value: the
\* step index for a stepped parameter, the normal value otherwise
CommittedChanges ==
    IF stepped_state # None
    THEN stepped_state'[1].value # stepped_state[1].value
    ELSE normal_value' # normal_value

\* The operations that return an Option<ParamUpdate>
NotifyingOps ==
    {"begin_drag_gesture", "begin_scroll_wheel_gesture", "handle_drag",
     "handle_scroll_wheel", "finish_gesture", "reset_to_default", "set_normal_value"}

\* C11: reset_to_default returns GestureFinished when a gesture was active or
\* the committed value (the step index for a stepped parameter) differed from
\* the default, and nothing otherwise; a second consecutive reset_to_default
\* returns nothing.
C11_ResetNotifiesIffChanged ==
    [][op' = "reset_to_default" =>
          /\ (ret' # None) <=> (current_gesture # None \/ CommittedDiffersFromDefault)
          /\ ret' # None => ret'[1].gesture_state = "GestureFinished"
          /\ op = "reset_to_default" => ret' = None]_vars

\* C12: set_normal_value called while a gesture is active returns a
\* GestureFinished notification and leaves no gesture active, whatever the new
\* value.
C12_SetDuringGestureFinishes ==
    (op = "set_normal_value" /\ was_gesturing) =>
        (Returned("GestureFinished") /\ current_gesture = None)

\* set_normal_value has been called during a gesture.
C12_Witness ==
    /\ op = "set_normal_value"
    /\ was_gesturing
    /\ Returned("GestureFinished")
    /\ current_gesture = None

\* C13: set_normal_value called with no gesture active returns a
\* GestureFinished notification if and only if the committed value changed (the
\* step index for a stepped parameter, the normal value otherwise).
C13_SetWhileIdleNotifiesIffChanged ==
    [][(current_gesture = None /\ op' = "set_normal_value") =>
          /\ (ret' # None) <=> CommittedChanges
          /\ ret' # None => ret'[1].gesture_state = "GestureFinished"]_vars

\* C14: an operation that returns no notification leaves normal_value(),
\* stepped_value() and whether a gesture is active as they were.
C14_NoNotificationNoChange ==
    [][(op' \in NotifyingOps /\ ret' = None) =>
          /\ normal_value' = normal_value
          /\ stepped_state' = stepped_state
          /\ (current_gesture' = None) <=> (current_gesture = None)]_vars

\* C15: for a continuous parameter with no gesture active the continuous
\* gesture position equals the committed normal value.
C15_ContinuousIdleInSync ==
    (stepped_state = None /\ current_gesture = None) =>
        continuous_gesture_normal = normal_value

\* C16: for a continuous parameter in an idle state with value v,
\* begin_drag_gesture followed by one pointer-delta handle_drag moving the drag
\* axis by d points (no modifier held) yields normal_value
\* clamp(v + d * drag_scalar, 0, 1) and a Gesturing notification carrying it
\* when it differs from v; finish_gesture then returns GestureFinished with the
\* same value, and a handle_drag after it is a no-op.
C16_DragSequence ==
    [][/\ ( /\ stepped_state = None
            /\ op = "begin_drag_gesture"
            /\ Returned("GestureStarted")
            /\ ~config.disable_pointer_locking ) =>
          \A p \in Points, d \in Vectors :
              handle_drag(p, Some(d), {}) =>
                  LET dragged == Clamp01(normal_value
                                         + Along(drag_vertically, d) * config.drag_scalar)
                  IN /\ normal_value' = dragged
                     /\ ret' = IF dragged # normal_value
                               THEN Some(ParamUpdate(dragged, None, "Gesturing"))
                               ELSE None
       /\ (stepped_state = None /\ op = "handle_drag" /\ IsDragging
               /\ op' = "finish_gesture") =>
              /\ ret' = Some(ParamUpdate(normal_value, None, "GestureFinished"))
              /\ normal_value' = normal_value
              /\ current_gesture' = None
       /\ (stepped_state = None /\ op = "finish_gesture" /\ op' = "handle_drag") =>
              /\ ret' = None
              /\ UNCHANGED << normal_value, continuous_gesture_normal,
                              current_gesture >>]_vars

\* The configured fine-adjustment modifier is held in the modifier set
FineModifierHeld(modifiers) ==
    /\ config.fine_adjustment_modifier # None
    /\ config.fine_adjustment_modifier[1] \subseteq modifiers

\* The modifier set with every key but the fine-adjustment modifier released
OnlyFineModifier(modifiers) ==
    IF FineModifierHeld(modifiers) THEN config.fine_adjustment_modifier[1] ELSE {}

\* C17: handle_drag and handle_scroll_wheel apply the fine-adjustment scalar
\* exactly when the configured fine-adjustment modifier is held, whatever other
\* modifier keys are held with it: the outcome with a modifier set is the
\* outcome with the fine-adjustment modifier alone if the set includes it, and
\* the outcome with no modifier otherwise.
C17_FineAdjustmentWhenHeld ==
    [][/\ \A p \in Points, d \in PointerDeltas, m \in ModifierSets :
              handle_drag(p, d, m) => handle_drag(p, d, OnlyFineModifier(m))
       /\ \A dt \in WheelDeltas, m \in ModifierSets :
              handle_scroll_wheel(dt, m) => handle_scroll_wheel(dt, OnlyFineModifier(m))]_vars

\* C18: handle_scroll_wheel reads the component of the wheel delta selected by
\* scroll_vertically (vertical when true, horizontal otherwise), whatever
\* drag_vertically is: during a scroll-wheel gesture, a delta that is zero
\* along that axis changes nothing and any other moves the continuous position
\* by that component.
C18_ScrollReadsScrollAxis ==
    [][(current_gesture = Some(ScrollWheel) /\ config.use_scroll_wheel) =>
          \A dt \in WheelDeltas, m \in ModifierSets :
              handle_scroll_wheel(dt, m) =>
                  LET delta_points == Along(scroll_vertically, WheelDeltaPoints(dt))
                      delta_normal == IF ApplyFineAdjustmentScalar(m)
                                      THEN Scaled(delta_points * config.drag_scalar,
                                                  config.fine_adjustment_scalar)
                                      ELSE delta_points * config.drag_scalar
                  IN continuous_gesture_normal' =
                         Clamp01(continuous_gesture_normal + delta_normal)]_vars

\* C19: handle_scroll_wheel returns no notification and leaves all state
\* unchanged whenever config.use_scroll_wheel is false, whenever the delta is
\* in pages, and whenever the component of the delta along the axis the
\* operation reads is zero: a call that notifies or changes state is no call
\* with such an input.
C19_ScrollIgnoredInputs ==
    [][( /\ op' = "handle_scroll_wheel"
         /\ ~( /\ ret' = None
               /\ UNCHANGED << normal_value, default_normal, continuous_gesture_normal,
                               stepped_state, current_gesture >> ) ) =>
          \A dt \in WheelDeltas :
              ( \/ ~config.use_scroll_wheel
                \/ dt.type = "Pages"
                \/ Along(drag_vertically,
                         IF dt.type = "Lines"
                         THEN [x |-> dt.v.x * config.scroll_wheel_points_per_line,
                               y |-> dt.v.y * config.scroll_wheel_points_per_line]
                         ELSE dt.v) = 0 ) =>
                  \A m \in ModifierSets : ~handle_scroll_wheel(dt, m)]_vars

\* handle_scroll_wheel has been called, during a scroll-wheel gesture, on an
\* instance whose configuration disables the scroll wheel.
C19_Witness ==
    /\ op = "handle_scroll_wheel"
    /\ ~config.use_scroll_wheel
    /\ current_gesture = Some(ScrollWheel)
    /\ ret = None

\* C20: set_normal_value(v) on a stepped parameter with n steps sets
\* stepped_value() to param_normal_to_quantized(v, n), normal_value() to the grid
\* point of that step, and the continuous gesture position to the same grid
\* point.
C20_SetSnapsToGrid ==
    [][stepped_state # None =>
          \A v \in NormalInputs :
              set_normal_value(v) =>
                  LET n == stepped_state[1].num_steps
                      k == param_normal_to_quantized(v, n)
                  IN /\ stepped_state' = Some(SteppedParamState(k, n))
                     /\ normal_value' = param_quantized_to_normal(k, n)
                     /\ continuous_gesture_normal' = param_quantized_to_normal(k, n)]_vars

\* set_normal_value has put a stepped parameter on an inner grid point, away
\* from where a gesture had left the continuous position.
C20_Witness ==
    /\ op = "set_normal_value"
    /\ stepped_state # None
    /\ stepped_state[1].value > 0
    /\ stepped_state[1].value < stepped_state[1].num_steps
    /\ normal_value = param_quantized_to_normal(stepped_state[1].value,
                                                stepped_state[1].num_steps)
    /\ continuous_gesture_normal = normal_value
    /\ was_gesturing

\* The normal value is a grid point of a parameter with the stepped state ss
OnGrid(normal, ss) == param_snap_normal(normal, ss.num_steps) = normal

\* C21: VirtualSliderInner::new with a step count leaves the initial and the
\* default value on the grid and the step index the step of the initial value;
\* without a step count it leaves both values in [0,1]; in both cases no gesture
\* is active and the continuous position equals the committed value.
C21_NewSnapsOrClamps ==
    op = "new" =>
        /\ current_gesture = None
        /\ continuous_gesture_normal = normal_value
        /\ 0 <= normal_value /\ normal_value <= One
        /\ 0 <= default_normal /\ default_normal <= One
        /\ stepped_state # None =>
               /\ stepped_state[1].value <= stepped_state[1].num_steps
               /\ normal_value * stepped_state[1].num_steps = stepped_state[1].value * One
               /\ OnGrid(normal_value, stepped_state[1])
               /\ OnGrid(default_normal, stepped_state[1])

\* A stepped parameter has been constructed with its value and its default on
\* inner grid points, different ones.
C21_Witness ==
    /\ op = "new"
    /\ stepped_state # None
    /\ stepped_state[1].num_steps = MaxSteps
    /\ 0 < stepped_state[1].value /\ stepped_state[1].value < MaxSteps
    /\ default_normal = One
    /\ normal_value # default_normal

\* C22: set_default_normal(v) stores the snap of v (its grid point if the
\* parameter is stepped, its clamp to [0,1] otherwise) as the default, returns
\* true exactly when the stored default changed, and leaves the active gesture
\* with its captured start state, the committed value, the stepped value and
\* the continuous position unchanged.
C22_SetDefaultNormal ==
    [][op' = "set_default_normal" =>
          \A v \in NormalInputs :
              set_default_normal(v) =>
                  /\ default_normal' =
                         IF stepped_state # None
                         THEN param_quantized_to_normal(
                                  param_normal_to_quantized(v, stepped_state[1].num_steps),
                                  stepped_state[1].num_steps)
                         ELSE Clamp01(v)
                  /\ ret' = Some(default_normal' # default_normal)
                  /\ UNCHANGED << current_gesture, normal_value, stepped_state,
                                  continuous_gesture_normal >>]_vars

\* set_default_normal has changed the default of a stepped parameter to an
\* inner grid point during a drag.
C22_Witness ==
    /\ op = "set_default_normal"
    /\ ret = Some(TRUE)
    /\ IsDragging
    /\ stepped_state # None
    /\ 0 < default_normal /\ default_normal < One

\* C23: default_normal() is changed by no operation other than
\* set_default_normal, and it is always in [0,1] and, for a stepped parameter,
\* on the grid.
C23_DefaultOnlySetExplicitly ==
    /\ [](/\ 0 <= default_normal /\ default_normal <= One
          /\ stepped_state # None => OnGrid(default_normal, stepped_state[1]))
    /\ [][op' # "set_default_normal" => default_normal' = default_normal]_vars

\* reset_to_default has changed the committed value of a stepped parameter to
\* a default on an inner grid point, ending a gesture.
C23_Witness ==
    /\ op = "reset_to_default"
    /\ was_gesturing
    /\ stepped_state # None
    /\ normal_value = default_normal
    /\ 0 < default_normal /\ default_normal < One

\* C24: for a stepped parameter the step index never exceeds the step count.
C24_StepIndexInRange ==
    stepped_state # None => stepped_state[1].value <= stepped_state[1].num_steps

\* A drag has moved a stepped parameter to its last step.
C24_Witness ==
    /\ op = "handle_drag"
    /\ Returned("Gesturing")
    /\ stepped_state # None
    /\ stepped_state[1].num_steps = MaxSteps
    /\ stepped_state[1].value = MaxSteps

\* C25: snapping is idempotent: for a normal v in [0,1] and a step count n,
\* param_snap_normal called on param_snap_normal(v, n) returns the same value.
C25_SnapIdempotent ==
    [][(call_param_snap_normal_again /\ 0 <= q_normal /\ q_normal <= One) =>
          q_result' = q_result]_vars

\* A normal off the grid has been snapped to an inner grid point, and that
\* snapped again.
C25_Witness ==
    /\ q_op = "param_snap_normal again"
    /\ 0 < q_normal /\ q_normal < One
    /\ q_steps = MaxSteps
    /\ q_result # Some(q_normal)
    /\ 0 < q_result[1] /\ q_result[1] < One

\* C26: param_quantized_to_normal(k, n) is 0.0 if k = 0 or n = 0, 1.0 if
\* k >= n, else k/n; param_normal_to_quantized(v, n) is 0 if v <= 0.0 or n = 0,
\* n if v >= 1.0, else a nearest integer to v*n; param_normal_to_quantized(0.0, n)
\* is 0 and param_normal_to_quantized(1.0, n) is n for n > 0.
C26_QuantizationPiecewise ==
    /\ q_op = "param_quantized_to_normal" =>
           IF q_value = 0 \/ q_steps = 0 THEN q_result = Some(0)
           ELSE IF q_value >= q_steps THEN q_result = Some(One)
           ELSE q_result[1] * q_steps = q_value * One
    /\ q_op = "param_normal_to_quantized" =>
           /\ IF q_normal <= 0 \/ q_steps = 0 THEN q_result = Some(0)
              ELSE IF q_normal >= One THEN q_result = Some(q_steps)
              ELSE /\ 2 * (q_result[1] * One - q_normal * q_steps) <= One
                   /\ 2 * (q_normal * q_steps - q_result[1] * One) <= One
           /\ (q_steps > 0 /\ q_normal = 0) => q_result = Some(0)
           /\ (q_steps > 0 /\ q_normal = One) => q_result = Some(q_steps)

\* param_normal_to_quantized has rounded a normal off the grid up to an inner
\* step.
C26_Witness ==
    /\ q_op = "param_normal_to_quantized"
    /\ 0 < q_normal /\ q_normal < One
    /\ 0 < q_result[1] /\ q_result[1] < q_steps
    /\ q_result[1] * One > q_normal * q_steps

\* C27: an instance constructed with a step count of 0 stays at value 0:
\* after any sequence of operations normal_value() is 0.0 and stepped_value()
\* is Some(0).
C27_ZeroStepsStayAtZero ==
    (stepped_state # None /\ stepped_state[1].num_steps = 0) =>
        /\ normal_value = 0
        /\ stepped_value = Some(0)

\* A drag has moved the continuous position of a parameter with a step count
\* of 0 off 0.0.
C27_Witness ==
    /\ stepped_state # None
    /\ stepped_state[1].num_steps = 0
    /\ op = "handle_drag"
    /\ continuous_gesture_normal > 0

\* C28: the overlay stored by set_automation_info is always clamped (its
\* current_normal and both ends of its range lie in [0,1]); setting it never
\* changes normal_value, stepped_value, the default or the active gesture, and
\* no operation of the slider changes it.
C28_AutomationOverlay ==
    /\ [](/\ automation_info.current_normal # None =>
                 /\ 0 <= automation_info.current_normal[1]
                 /\ automation_info.current_normal[1] <= One
          /\ automation_info.range # None =>
                 /\ 0 <= automation_info.range[1].start
                 /\ automation_info.range[1].start <= One
                 /\ 0 <= automation_info.range[1].end
                 /\ automation_info.range[1].end <= One)
    /\ [][/\ automation_info' # automation_info =>
                 UNCHANGED << normal_value, stepped_state, default_normal,
                              current_gesture, continuous_gesture_normal >>
          /\ slider' # slider => automation_info' = automation_info]_vars

\* An overlay with a value below the range and a range reaching above it is
\* stored, and a drag has changed the value since.
C28_Witness ==
    /\ automation_info = AutomationInfo(Some(0), Some(Range(StepLcm, One)))
    /\ op = "handle_drag"
    /\ Returned("Gesturing")

\* C29: ProgressBar::set_percent clamps its argument to [0,100], returns true
\* and notifies a state change exactly when the stored percent changed, and
\* returns false without notifying otherwise; percent() is always in [0,100].
C29_SetPercent ==
    /\ [](0 <= percent /\ percent <= MaxPercent)
    /\ [][\A p \in PercentInputs :
              set_percent(p) =>
                  /\ percent' = IF p < 0 THEN 0 ELSE IF p > MaxPercent THEN MaxPercent ELSE p
                  /\ percent_ret' = (percent' # percent)
                  /\ percent_notified' = (percent' # percent)]_vars

\* set_percent has changed the percent to an end of the range and notified.
C29_Witness ==
    /\ percent \in {0, MaxPercent}
    /\ percent_ret
    /\ percent_notified

\* C30: after a handle_drag processed in pointer-delta mode or in
\* fine-adjustment absolute mode, the Dragging gesture's captured start
\* position is the pointer position passed to the call and its captured start
\* value is the continuous position as that call has updated it.
C30_DragRebasesToCurrent ==
    [][(IsDragging /\ op' = "handle_drag") =>
          \A p \in Points, d \in PointerDeltas, m \in ModifierSets :
              ( /\ handle_drag(p, d, m)
                /\ DragCandidate(current_gesture[1], p, d, m).reset_start_pos ) =>
                  current_gesture' = Some(Dragging(p, continuous_gesture_normal'))]_vars

\* The modes of handle_drag that re-base the captured start state
RebasingModes == {Some("PointerDelta"), Some("FineAbsolute")}

\* C31: switching mode inside one Dragging gesture causes no value jump: after
\* a pointer-delta or fine-adjustment handle_drag at pointer position P that
\* changed the value, an immediately following absolute-mode handle_drag at the
\* same position P leaves the committed value and the continuous position
\* unchanged.
C31_NoJumpOnModeSwitch ==
    [][(op = "handle_drag" /\ drag_mode \in RebasingModes /\ ret # None) =>
          \A d \in PointerDeltas, m \in ModifierSets :
              ( /\ config.disable_pointer_locking \/ d = None
                /\ ~FineModifierHeld(m)
                /\ handle_drag(current_gesture[1].pointer_start_pos, d, m) ) =>
                  UNCHANGED << normal_value, stepped_state,
                               continuous_gesture_normal >>]_vars

\* C32: in absolute mode (pointer locking disabled or no delta supplied, fine
\* modifier not held) handle_drag computes the new continuous position as
\* clamp(captured start value + (pointer position - captured start position
\* along the drag axis) * drag_scalar, 0, 1) and leaves the captured start
\* position and start value unchanged, so a pointer on the press point gives
\* the captured start value.
C32_AbsoluteMode ==
    [][(IsDragging /\ op' = "handle_drag") =>
          \A m \in ModifierSets :
              ~FineModifierHeld(m) =>
                  \A p \in Points :
                      LET g == current_gesture[1]
                          offset == IF drag_vertically
                                    THEN p.y - g.pointer_start_pos.y
                                    ELSE p.x - g.pointer_start_pos.x
                      IN \/ /\ continuous_gesture_normal' =
                                   Clamp01(g.start_normal + offset * config.drag_scalar)
                            /\ current_gesture' = current_gesture
                            /\ p = g.pointer_start_pos =>
                                   continuous_gesture_normal' = g.start_normal
                         \/ \A d \in PointerDeltas :
                                (config.disable_pointer_locking \/ d = None) =>
                                    ~handle_drag(p, d, m)]_vars

\* An absolute-mode handle_drag has changed the value of a continuous parameter
\* to the captured start value.
C32_Witness ==
    /\ op = "handle_drag"
    /\ drag_mode = Some("Absolute")
    /\ Returned("Gesturing")
    /\ stepped_state = None
    /\ normal_value = current_gesture[1].start_normal

\* C33: in pointer-delta mode handle_drag sets the continuous position to
\* clamp(previous continuous position + delta along the drag axis * drag_scalar
\* [* fine_adjustment_scalar when handle_drag applies fine adjustment], 0, 1),
\* whatever the pointer position, so that successive deltas accumulate and the
\* position stays within [0,1].
C33_PointerDeltaMode ==
    [][(IsDragging /\ op' = "handle_drag" /\ ~config.disable_pointer_locking) =>
          \A m \in ModifierSets, d \in Vectors :
              LET delta_points == IF drag_vertically THEN d.y ELSE d.x
                  delta_normal ==
                      IF ApplyFineAdjustmentScalar(m)
                      THEN (delta_points * config.drag_scalar
                                * config.fine_adjustment_scalar.num)
                               \div config.fine_adjustment_scalar.den
                      ELSE delta_points * config.drag_scalar
                  sum == continuous_gesture_normal + delta_normal
              IN \/ /\ continuous_gesture_normal' =
                           IF sum < 0 THEN 0 ELSE IF sum > One THEN One ELSE sum
                    /\ 0 <= continuous_gesture_normal'
                    /\ continuous_gesture_normal' <= One
                 \/ \A p \in Points : ~handle_drag(p, Some(d), m)]_vars

\* A pointer-delta handle_drag has changed the value of a continuous parameter
\* to 0.0, where a delta of MaxDelta points back from a position less than that
\* above 0.0 saturates.
C33_Witness ==
    /\ op = "handle_drag"
    /\ drag_mode = Some("PointerDelta")
    /\ Returned("Gesturing")
    /\ stepped_state = None
    /\ continuous_gesture_normal = 0

\* C34: handle_drag selects one of three modes by priority: pointer-delta mode
\* whenever pointer locking is not disabled and a delta is supplied, whether or
\* not the fine modifier is held; otherwise fine-adjustment absolute mode when
\* the fine modifier is held; otherwise absolute mode.
C34_DragModePriority ==
    [][(IsDragging /\ op' = "handle_drag") =>
          \A p \in Points, d \in PointerDeltas, m \in ModifierSets :
              handle_drag(p, d, m) =>
                  drag_mode' = Some(IF ~config.disable_pointer_locking /\ d # None
                                    THEN "PointerDelta"
                                    ELSE IF FineModifierHeld(m)
                                    THEN "FineAbsolute"
                                    ELSE "Absolute")]_vars

GestureInputOps == {"handle_drag", "handle_scroll_wheel"}

\* C35: handle_drag and handle_scroll_wheel return a Gesturing notification
\* exactly when the committed value changed (the step index for a stepped
\* parameter, the normal value otherwise), and none when the continuous
\* position stayed where it was.
C35_GesturingIffCommittedChanges ==
    [][op' \in GestureInputOps =>
          /\ (ret' # None) <=> CommittedChanges
          /\ ret' # None => ret'[1].gesture_state = "Gesturing"
          /\ continuous_gesture_normal' = continuous_gesture_normal => ret' = None]_vars

\* A handle_drag of a stepped parameter has returned nothing and the
\* continuous position is off the grid point of the step index, inside its
\* bucket.
C35_Witness ==
    /\ op = "handle_drag"
    /\ drag_mode # None
    /\ ret = None
    /\ stepped_state # None
    /\ stepped_state[1].num_steps = MaxSteps
    /\ continuous_gesture_normal #
           param_quantized_to_normal(stepped_state[1].value, MaxSteps)

C37_StepIsQuantizedContinuous ==
    stepped_state # None =>
        stepped_state[1].value =
            param_normal_to_quantized(continuous_gesture_normal,
                                      stepped_state[1].num_steps)

\* A drag has left the continuous position of a stepped parameter off the grid.
C37_Witness ==
    /\ op = "handle_drag"
    /\ drag_mode # None
    /\ stepped_state # None
    /\ stepped_state[1].num_steps = MaxSteps
    /\ ~OnGrid(continuous_gesture_normal, stepped_state[1])

\* C38: grid points round-trip through the quantization functions: for n > 0
\* and a step k with 0 <= k <= n,
\* param_normal_to_quantized(param_quantized_to_normal(k, n), n) = k.
C38_GridRoundTrip ==
    ( /\ q_op = "param_normal_to_quantized of param_quantized_to_normal"
      /\ q_steps > 0
      /\ q_value <= q_steps ) =>
        q_result = Some(q_value)

\* An inner step of the largest step count has made the round trip.
C38_Witness ==
    /\ q_op = "param_normal_to_quantized of param_quantized_to_normal"
    /\ q_steps = MaxSteps
    /\ 0 < q_value /\ q_value < q_steps
    /\ q_result = Some(q_value)

\* The tab is ready to be toggled on: Idle or Hovered, and untoggled
ReadyToToggleOn == inner.state \in {"Idle", "Hovered"} /\ ~inner.toggled

\* C39: pointer input toggles a DualTab on and never off: a primary-button
\* press toggles the tab on and sends the on_toggled_on action exactly when
\* the tab is Idle or Hovered and untoggled; a press on a toggled, Down or
\* Disabled tab changes neither the toggled flag nor the button state and
\* sends no action; no other event changes the toggled flag.
C39_ToggledOnByPrimaryPressOnly ==
    [][tab_op' = "on_event" =>
          LET ev == event'[1]
              pressed == ev.type = "ButtonJustPressed"
              primary == pressed /\ ev.button = "Primary"
          IN /\ (primary /\ ReadyToToggleOn) =>
                    /\ inner'.toggled
                    /\ sent_action' = action
             /\ inner'.toggled # inner.toggled => (primary /\ ReadyToToggleOn)
             /\ sent_action' # None => (primary /\ ReadyToToggleOn)
             /\ (pressed /\ ~ReadyToToggleOn) =>
                    /\ inner' = inner
                    /\ sent_action' = None]_vars

\* A primary press has toggled a tab on and sent its action.
C39_Witness ==
    /\ tab_op = "on_event"
    /\ event = Some(ElementEvent("ButtonJustPressed", FALSE, "Primary", FALSE))
    /\ inner = [state |-> "Down", toggled |-> TRUE]
    /\ action # None
    /\ sent_action = action
    /\ status = Some("Captured")

\* C40: DualTabGroup::updated_selected never indexes out of bounds: for every
\* group size, the empty group included, and every index given to the
\* constructor or as the argument it returns without panicking, treats an
\* argument that is out of range as 0, and leaves selected_index below
\* tabs.len() whenever the group is not empty.
C40_UpdatedSelectedInBounds ==
    [][group_op' = "updated_selected" =>
          /\ ~panicked'
          /\ Len(tabs) > 0 => selected_index' < Len(tabs')
          /\ \A selected \in TabIndices :
                 (selected >= Len(tabs) /\ updated_selected(selected)) =>
                     updated_selected(0)]_vars

====
